---- MODULE Spec2Model ----
(***************************************************************************)
(* Model of src/app/processor.py of stock-backtest-engine: the message     *)
(* validator validate_input_message and the job runner run_backtest_job,   *)
(* driven by a worker that takes one job message at a time through the     *)
(* validate -> simulate pipeline.                                          *)
(*                                                                         *)
(* Python dicts are objects: heap is the sequence of dict objects that     *)
(* exist, a reference is an index into it, and None is the reference 0.    *)
(* A dict object is a function from its keys (strings) to Python values.   *)
(* A Python value is a tagged record: Str(s) a string, Float(t) a float    *)
(* given in tenths (12.4 is Float(124)), Dict(d) a dict given by value.    *)
(***************************************************************************)
EXTENDS Integers, Sequences, FiniteSets, TLC

VARIABLES
    heap,       \* the dict objects: heap[r] is the mapping held by reference r
    message,    \* the worker's reference to the incoming job message (0: none)
    schema_ok,  \* what the schema checker answers for this message
    sent,       \* history: the message's content as it was received
    pc,         \* where the worker is: idle, received, validated, done, raised
    validated,  \* the reference validate_input_message returned (0: none)
    result,     \* the reference run_backtest_job returned (0: none)
    retry,      \* the reference a second run on the same message returned
    again,      \* the reference a run on the first result returned
    raised,     \* the exception that ended the pipeline (NoError: none)
    log,        \* the records logged while this message is processed
    last        \* history: <<status, metrics>> of the previous job's result

vars == <<heap, message, schema_ok, sent, pc, validated, result, retry, again,
          raised, log, last>>

----------------------------------------------------------------------------
(* Bounds of the input space *)

MaxValues == 2
MaxExtraKeys == 1

----------------------------------------------------------------------------
(* Python values *)

None == 0

Str(s) == [kind |-> "str", v |-> s]
Float(tenths) == [kind |-> "float", v |-> tenths]
Dict(d) == [kind |-> "dict", v |-> d]

NoError == [kind |-> "none", args |-> <<>>]
ValueError(args) == [kind |-> "ValueError", args |-> args]
KeyError(args) == [kind |-> "KeyError", args |-> args]

LogRecord(level, msg, args) == [level |-> level, msg |-> msg, args |-> args]

Range(s) == {s[i] : i \in DOMAIN s}

(* dict.get(key, default) *)
Get(m, key, default) == IF key \in DOMAIN m THEN m[key] ELSE default

(* the dict display {**a, **b}: a new mapping, b's entries written last *)
Merge(a, b) ==
    [k \in (DOMAIN a) \cup (DOMAIN b) |-> IF k \in DOMAIN b THEN b[k] ELSE a[k]]

----------------------------------------------------------------------------
(* The job runner's placeholder result *)

(* variant: max_drawdown written as 4.8 in place of -4.8 *)
metrics_mutant ==
    Dict([return_pct |-> Float(124), sharpe_ratio |-> Float(17),
          max_drawdown |-> Float(48)])

metrics ==
    Dict([return_pct |-> Float(124), sharpe_ratio |-> Float(17),
          max_drawdown |-> Float(-48)])

(* variant: "symbol": strategy and "strategy": symbol *)
BacktestResult_swapped(job_id, strategy, symbol) ==
    [job_id |-> job_id, symbol |-> strategy, strategy |-> symbol,
     status |-> Str("completed"), metrics |-> metrics]

(* variant: a status that depends on the job_id read *)
BacktestResult_varying(job_id, strategy, symbol) ==
    [job_id |-> job_id, symbol |-> symbol, strategy |-> strategy,
     status |-> IF job_id = Str("unknown") THEN Str("failed") ELSE Str("completed"),
     metrics |-> metrics]

BacktestResult(job_id, strategy, symbol) ==
    [job_id |-> job_id, symbol |-> symbol, strategy |-> strategy,
     status |-> Str("completed"), metrics |-> metrics]

----------------------------------------------------------------------------
(* The input space: job messages *)

ReadKeys == {"job_id", "strategy", "symbol"}
ResultKeys == ReadKeys \cup {"status", "metrics"}

ExtraKeyPool == <<"exchange", "start_date", "end_date">>
ExtraKeys == {ExtraKeyPool[i] : i \in 1..MaxExtraKeys}

ValuePool == <<Str("j1"), Str("completed"), metrics, Str("unknown"), Str("AAPL")>>
Values == {ValuePool[i] : i \in 1..MaxValues}

Keys == ResultKeys \cup ExtraKeys
Messages == UNION {[D -> Values] : D \in SUBSET Keys}

(* The external schema checker: a boolean answer per message *)
validate_message_schema(m) == schema_ok

----------------------------------------------------------------------------
(* validate_input_message(message), called on the object h[ref].  The       *)
(* outcome: the heap afterwards, the records logged, the exception raised   *)
(* (NoError: none) and the reference returned.                              *)

(* variant: raise ValueError(message) *)
validate_input_message_payload(h, ref) ==
    LET m == h[ref]
        dbg == LogRecord("DEBUG", "Validating message schema...", <<>>)
    IN  IF ~validate_message_schema(m)
        THEN [heap |-> h,
              log |-> <<dbg, LogRecord("ERROR", "Invalid message schema: %s", <<Dict(m)>>)>>,
              raised |-> ValueError(<<Dict(m)>>),
              ret |-> None]
        ELSE [heap |-> h, log |-> <<dbg>>, raised |-> NoError, ret |-> ref]

(* variant: if validate_message_schema(message), the not dropped *)
validate_input_message_inverted(h, ref) ==
    LET m == h[ref]
        dbg == LogRecord("DEBUG", "Validating message schema...", <<>>)
    IN  IF validate_message_schema(m)
        THEN [heap |-> h,
              log |-> <<dbg, LogRecord("ERROR", "Invalid message schema: %s", <<Dict(m)>>)>>,
              raised |-> ValueError(<<Str("Invalid message format")>>),
              ret |-> None]
        ELSE [heap |-> h, log |-> <<dbg>>, raised |-> NoError, ret |-> ref]

(* variant: the error is logged and the raise is missing *)
validate_input_message_noraise(h, ref) ==
    LET m == h[ref]
        dbg == LogRecord("DEBUG", "Validating message schema...", <<>>)
    IN  IF ~validate_message_schema(m)
        THEN [heap |-> h,
              log |-> <<dbg, LogRecord("ERROR", "Invalid message schema: %s", <<Dict(m)>>)>>,
              raised |-> NoError,
              ret |-> ref]
        ELSE [heap |-> h, log |-> <<dbg>>, raised |-> NoError, ret |-> ref]

validate_input_message(h, ref) ==
    LET m == h[ref]
        dbg == LogRecord("DEBUG", "Validating message schema...", <<>>)
    IN  IF ~validate_message_schema(m)
        THEN [heap |-> h,
              log |-> <<dbg, LogRecord("ERROR", "Invalid message schema: %s", <<Dict(m)>>)>>,
              raised |-> ValueError(<<Str("Invalid message format")>>),
              ret |-> None]
        ELSE [heap |-> h, log |-> <<dbg>>, raised |-> NoError, ret |-> ref]

----------------------------------------------------------------------------
(* run_backtest_job(message), called on the object h[ref]; the outcome as   *)
(* for validate_input_message.  The returned dict is a new object.          *)

RunLog(job_id, strategy, symbol, res) ==
    << LogRecord("INFO", "Running backtest job %s for %s using strategy %s",
                 <<job_id, symbol, strategy>>),
       LogRecord("DEBUG", "Backtest job %s result: %s", <<job_id, Dict(res)>>) >>

(* message["job_id"] in place of message.get("job_id", "unknown") *)
run_backtest_job_subscript(h, ref) ==
    LET m == h[ref]
    IN  IF ReadKeys \subseteq DOMAIN m
        THEN LET res == BacktestResult(m["job_id"], m["strategy"], m["symbol"])
             IN  [heap |-> Append(h, Merge(m, res)),
                  log |-> RunLog(m["job_id"], m["strategy"], m["symbol"], res),
                  raised |-> NoError,
                  ret |-> Len(h) + 1]
        ELSE [heap |-> h, log |-> <<>>,
              raised |-> KeyError(<<Str(CHOOSE k \in ReadKeys : k \notin DOMAIN m)>>),
              ret |-> None]

(* {**result, **message} in place of {**message, **result} *)
run_backtest_job_reversed(h, ref) ==
    LET m == h[ref]
        job_id == Get(m, "job_id", Str("unknown"))
        strategy == Get(m, "strategy", Str("unspecified"))
        symbol == Get(m, "symbol", Str("UNKNOWN"))
        res == BacktestResult(job_id, strategy, symbol)
    IN  [heap |-> Append(h, Merge(res, m)),
         log |-> RunLog(job_id, strategy, symbol, res),
         raised |-> NoError,
         ret |-> Len(h) + 1]

(* return result in place of return {**message, **result} *)
run_backtest_job_nomerge(h, ref) ==
    LET m == h[ref]
        job_id == Get(m, "job_id", Str("unknown"))
        strategy == Get(m, "strategy", Str("unspecified"))
        symbol == Get(m, "symbol", Str("UNKNOWN"))
        res == BacktestResult(job_id, strategy, symbol)
    IN  [heap |-> Append(h, res),
         log |-> RunLog(job_id, strategy, symbol, res),
         raised |-> NoError,
         ret |-> Len(h) + 1]

(* message.update(result); return message *)
run_backtest_job_inplace(h, ref) ==
    LET m == h[ref]
        job_id == Get(m, "job_id", Str("unknown"))
        strategy == Get(m, "strategy", Str("unspecified"))
        symbol == Get(m, "symbol", Str("UNKNOWN"))
        res == BacktestResult(job_id, strategy, symbol)
    IN  [heap |-> [h EXCEPT ![ref] = Merge(m, res)],
         log |-> RunLog(job_id, strategy, symbol, res),
         raised |-> NoError,
         ret |-> ref]

run_backtest_job(h, ref) ==
    LET m == h[ref]
        job_id == Get(m, "job_id", Str("unknown"))
        strategy == Get(m, "strategy", Str("unspecified"))
        symbol == Get(m, "symbol", Str("UNKNOWN"))
        res == BacktestResult(job_id, strategy, symbol)
    IN  [heap |-> Append(h, Merge(m, res)),
         log |-> RunLog(job_id, strategy, symbol, res),
         raised |-> NoError,
         ret |-> Len(h) + 1]

----------------------------------------------------------------------------
(* The worker: one job message at a time through validate -> simulate.     *)
(* An exception raised by either function ends the processing of the       *)
(* message.                                                                *)

Init ==
    /\ heap = <<>>
    /\ message = None
    /\ schema_ok = FALSE
    /\ sent = <<>>
    /\ pc = "idle"
    /\ validated = None
    /\ result = None
    /\ retry = None
    /\ again = None
    /\ raised = NoError
    /\ log = <<>>
    /\ last = <<>>

(* a job message arrives: a fresh dict, and the checker's answer for it *)
Receive ==
    /\ pc = "idle"
    /\ \E m \in Messages, ok \in BOOLEAN :
        /\ heap' = <<m>>
        /\ message' = 1
        /\ sent' = m
        /\ schema_ok' = ok
    /\ pc' = "received"
    /\ UNCHANGED <<validated, result, retry, again, raised, log, last>>

(* validated = validate_input_message(message) *)
Validate ==
    /\ pc = "received"
    /\ LET out == validate_input_message(heap, message)
       IN  /\ heap' = out.heap
           /\ log' = log \o out.log
           /\ raised' = out.raised
           /\ validated' = out.ret
           /\ pc' = IF out.raised = NoError THEN "validated" ELSE "raised"
    /\ UNCHANGED <<message, schema_ok, sent, result, retry, again, last>>

(* result = run_backtest_job(validated) *)
Simulate ==
    /\ pc = "validated"
    /\ LET out == run_backtest_job(heap, validated)
       IN  /\ heap' = out.heap
           /\ log' = log \o out.log
           /\ raised' = out.raised
           /\ result' = out.ret
           /\ pc' = IF out.raised = NoError THEN "done" ELSE "raised"
    /\ UNCHANGED <<message, schema_ok, sent, validated, retry, again, last>>

(* the same validated message is run a second time *)
Rerun ==
    /\ pc = "done"
    /\ retry = None
    /\ LET out == run_backtest_job(heap, validated)
       IN  /\ heap' = out.heap
           /\ log' = log \o out.log
           /\ raised' = out.raised
           /\ retry' = out.ret
           /\ pc' = IF out.raised = NoError THEN "done" ELSE "raised"
    /\ UNCHANGED <<message, schema_ok, sent, validated, result, again, last>>

(* the first result is itself given to run_backtest_job *)
Resubmit ==
    /\ pc = "done"
    /\ again = None
    /\ LET out == run_backtest_job(heap, result)
       IN  /\ heap' = out.heap
           /\ log' = log \o out.log
           /\ raised' = out.raised
           /\ again' = out.ret
           /\ pc' = IF out.raised = NoError THEN "done" ELSE "raised"
    /\ UNCHANGED <<message, schema_ok, sent, validated, result, retry, last>>

(* the worker is finished with the message and drops its objects *)
NextJob ==
    /\ pc \in {"done", "raised"}
    /\ last' = IF pc = "done"
               THEN <<heap[result]["status"], heap[result]["metrics"]>>
               ELSE last
    /\ heap' = <<>>
    /\ message' = None
    /\ schema_ok' = FALSE
    /\ sent' = <<>>
    /\ pc' = "idle"
    /\ validated' = None
    /\ result' = None
    /\ retry' = None
    /\ again' = None
    /\ raised' = NoError
    /\ log' = <<>>

Next == Receive \/ Validate \/ Simulate \/ Rerun \/ Resubmit \/ NextJob

Spec == Init /\ [][Next]_vars

----------------------------------------------------------------------------
(* Properties *)

Checked == pc \notin {"idle", "received"}
ErrorLogged(m) ==
    LogRecord("ERROR", "Invalid message schema: %s", <<Dict(m)>>) \in Range(log)
RunLogged == \E i \in DOMAIN log : log[i].level = "INFO"

(* C1, as stated: whenever the schema checker answers false for a message, *)
(* validate_input_message raises an error and the error carries the        *)
(* rejected message as its content.                                        *)
C1_ErrorCarriesPayload ==
    (Checked /\ ~schema_ok) =>
        /\ pc = "raised"
        /\ raised # NoError
        /\ Dict(sent) \in Range(raised.args)

(* C1, amended: whenever the schema checker answers false for a message,   *)
(* validate_input_message raises a ValueError whose only content is the    *)
(* fixed text "Invalid message format"; the rejected message is the        *)
(* argument of the ERROR log record, not of the error.                     *)
C1_ErrorCarriesFixedText ==
    (Checked /\ ~schema_ok) =>
        /\ pc = "raised"
        /\ raised = ValueError(<<Str("Invalid message format")>>)
        /\ ErrorLogged(sent)

C1_Witness == pc = "raised" /\ ~schema_ok /\ DOMAIN sent # {}

(* C2: whenever the schema checker answers true for a message,             *)
(* validate_input_message raises nothing and returns a mapping equal to    *)
(* its input, key for key and value for value.                             *)
C2_ValidReturnsInput ==
    (Checked /\ schema_ok) =>
        /\ raised = NoError
        /\ validated # None
        /\ DOMAIN heap[validated] = DOMAIN sent
        /\ \A k \in DOMAIN sent : heap[validated][k] = sent[k]

C2_Witness == pc = "validated" /\ schema_ok /\ Cardinality(DOMAIN sent) >= 2

(* C3: after a message fails schema validation nothing more is done with   *)
(* it: the pipeline is in the error state, run_backtest_job was never      *)
(* started on it and no result mapping exists for it.                      *)
C3_NoProcessingAfterInvalid ==
    (Checked /\ ~schema_ok) =>
        /\ pc = "raised"
        /\ validated = None /\ result = None /\ retry = None /\ again = None
        /\ ~RunLogged
        /\ Len(heap) = 1

C3_Witness == pc = "raised" /\ ~schema_ok /\ ResultKeys \subseteq DOMAIN sent

(* C4: the result of run_backtest_job has every key of the input plus      *)
(* status and metrics, and its status is "completed" and its metrics the   *)
(* placeholder mapping even when the input has its own status or metrics.  *)
C4_ResultHasInputKeysAndStatus ==
    result # None =>
        /\ (DOMAIN sent) \cup {"status", "metrics"} \subseteq DOMAIN heap[result]
        /\ heap[result]["status"] = Str("completed")
        /\ heap[result]["metrics"] = metrics

C4_Witness ==
    /\ result # None
    /\ {"status", "metrics"} \subseteq DOMAIN sent
    /\ sent["status"] # Str("completed")
    /\ sent["metrics"] # metrics

(* C5: for each of job_id, strategy and symbol on its own, the result      *)
(* holds the input's value when the input has the key and the default      *)
(* ("unknown", "unspecified", "UNKNOWN") when it has not.                  *)
C5_Defaults ==
    LET default == [job_id |-> Str("unknown"), strategy |-> Str("unspecified"),
                    symbol |-> Str("UNKNOWN")]
    IN  result # None =>
            \A k \in ReadKeys :
                /\ k \in DOMAIN heap[result]
                /\ heap[result][k] = IF k \in DOMAIN sent THEN sent[k] ELSE default[k]

C5_Witness ==
    /\ result # None
    /\ "job_id" \notin DOMAIN sent
    /\ "strategy" \in DOMAIN sent
    /\ "symbol" \notin DOMAIN sent

(* C6: for a message whose keys are exactly job_id, strategy and symbol    *)
(* the result is exactly the five-key mapping with the input's three       *)
(* values, status "completed" and metrics {return_pct: 12.4,               *)
(* sharpe_ratio: 1.7, max_drawdown: -4.8}.                                 *)
C6_ExactResult ==
    (result # None /\ DOMAIN sent = ReadKeys) =>
        heap[result] =
            [job_id |-> sent["job_id"], strategy |-> sent["strategy"],
             symbol |-> sent["symbol"], status |-> Str("completed"),
             metrics |-> Dict([return_pct |-> Float(124),
                               sharpe_ratio |-> Float(17),
                               max_drawdown |-> Float(-48)])]

C6_Witness ==
    /\ result # None
    /\ DOMAIN sent = ReadKeys
    /\ sent["job_id"] # sent["symbol"]

(* C7: the status and metrics of a result are the same for every input:    *)
(* they equal those of the previous job's result and those of the result   *)
(* obtained from this result as input; and a second run on the same        *)
(* message yields an equal result.                                         *)
C7_ConstantOutputs ==
    result # None =>
        LET out == <<heap[result]["status"], heap[result]["metrics"]>>
        IN  /\ last # <<>> => out = last
            /\ again # None =>
                  out = <<heap[again]["status"], heap[again]["metrics"]>>
            /\ retry # None => heap[retry] = heap[result]

C7_Witness ==
    /\ result # None /\ retry # None /\ again # None
    /\ last # <<>>
    /\ heap[result] # sent

(* C8: run_backtest_job never raises, whatever keys the mapping lacks: the *)
(* pipeline is in the error state only after a schema failure, with the    *)
(* validator's error, and a validated message always gets a result.        *)
C8_OnlyValidationFails ==
    /\ pc = "raised" =>
          /\ ~schema_ok
          /\ raised.kind = "ValueError"
          /\ ~RunLogged
    /\ pc = "validated" => run_backtest_job(heap, validated).raised = NoError
    /\ pc = "done" => raised = NoError /\ result # None

C8_Witness == pc = "done" /\ sent = <<>> /\ retry # None /\ again # None

(* C9: no call changes a mapping that exists: the input keeps the keys and *)
(* values it was received with, on the success and on the error path, and  *)
(* every result of run_backtest_job is a new mapping, not its input.       *)
C9_InputUnchanged ==
    /\ [](message # None => heap[message] = sent)
    /\ [](result # None => result # validated)
    /\ [](retry # None => retry # validated)
    /\ [](again # None => again # result)
    /\ [][pc' # "idle" =>
            \A r \in DOMAIN heap : r \in DOMAIN heap' /\ heap'[r] = heap[r]]_vars

C9_Witness ==
    /\ pc = "done" /\ retry # None /\ again # None
    /\ DOMAIN sent \cap {"status", "metrics"} = {}
    /\ "status" \in DOMAIN heap[result]

(* C10: the keys of the result are exactly the input's keys together with  *)
(* job_id, symbol, strategy, status and metrics; every input key other     *)
(* than status and metrics keeps the input's value; and running            *)
(* run_backtest_job on its own result returns an equal mapping.            *)
C10_KeysAndIdempotence ==
    result # None =>
        /\ DOMAIN heap[result] = (DOMAIN sent) \cup ResultKeys
        /\ \A k \in (DOMAIN sent) \ {"status", "metrics"} : heap[result][k] = sent[k]
        /\ again # None => heap[again] = heap[result]

C10_Witness ==
    /\ again # None
    /\ ExtraKeys \cap DOMAIN sent # {}
    /\ "job_id" \notin DOMAIN sent
    /\ "status" \in DOMAIN sent

====
